---------------------------- MODULE Spec2Model ----------------------------
(***************************************************************************)
(* Model of src/main.py: class MagnetronSolver and the script under        *)
(* `if __name__ == "__main__"`.                                            *)
(*                                                                         *)
(* Python floats are modelled in fixed point.  Units of the integers:      *)
(*   lengths (Ra, Rk, D, r, x, y) ....... 1e-5 m  (10 um)                  *)
(*   voltages (U, U1, U2) ............... 1e-1 V                           *)
(*   turn density n ..................... 1 turn/m                         *)
(*   angles ............................. 1e-4 rad                         *)
(*   cos / sin values ................... 1e-4                             *)
(*   2*U*m_e ............................ 1e-35 V kg                       *)
(*   2*U*m_e/e .......................... 1e-13                            *)
(*   sqrt(2*U*m_e/e) .................... 1e-8                             *)
(*   flux density B ..................... 1e-7 T                           *)
(*   mu_0*n ............................. 1e-7 T/A                         *)
(*   currents Ic ........................ 1e-3 A                           *)
(* A float is a record [k, v]: k = "fin" with the value v, or k = "inf",   *)
(* k = "nan" (v = 0) for the IEEE results of x/0 and of sqrt(x), x < 0.    *)
(* Every rounding is at most one unit of the result, so statements the     *)
(* code satisfies "within floating-point tolerance" are stated here within *)
(* a tolerance of a few units.                                             *)
(***************************************************************************)
EXTENDS Integers, Sequences, FiniteSets

(* scipy.constants, in the units above *)
m_e  == 9109      \* 9.109e-31 kg  in 1e-34 kg
e    == 1602      \* 1.602e-19 C   in 1e-22 C
mu_0 == 1257      \* 1.257e-6 T m/A in 1e-9 T m/A
(* numpy.pi in 1e-4 rad *)
pi   == 31416

(* defaults of the keyword arguments *)
TrajectoryDefaultPoints == 1000
IcVsUDefaultPoints      == 100

---------------------------------------------------------------------------
(* floats *)

Fin(v) == [k |-> "fin", v |-> v]
Inf    == [k |-> "inf", v |-> 0]
NaN    == [k |-> "nan", v |-> 0]

IsFinite(f) == f.k = "fin"

RECURSIVE SqrtSearch(_, _, _)
SqrtSearch(x, lo, hi) ==
    IF lo >= hi THEN lo
    ELSE LET mid == (lo + hi + 1) \div 2
         IN  IF mid * mid <= x THEN SqrtSearch(x, mid, hi)
                               ELSE SqrtSearch(x, lo, mid - 1)

(* numpy.sqrt of x given in units 1e-16, result in units 1e-8 *)
np_sqrt(x) == IF x < 0 THEN NaN ELSE Fin(SqrtSearch(x, 0, 46340))

(* FloatDiv with a defensive guard: a zero divisor yields 0 *)
FloatDiv_guarded(f, d, sc) ==
    IF f.k = "nan" THEN NaN
    ELSE IF f.k = "inf" THEN Inf
    ELSE IF d = 0 THEN Fin(0)
    ELSE Fin((f.v * sc) \div d)

(* f / d for a float f and a finite d >= 0, the quotient kept with sc more  *)
(* digits: numpy's float64 division, x/0 = inf and 0/0 = nan               *)
FloatDiv(f, d, sc) ==
    IF f.k = "nan" THEN NaN
    ELSE IF f.k = "inf" THEN Inf
    ELSE IF d = 0 THEN (IF f.v = 0 THEN NaN ELSE Inf)
    ELSE Fin((f.v * sc) \div d)

(* a * b / 10^4, rounded to the nearest unit *)
MulS(a, b) == (a * b + 5000) \div 10000

(* sin on [0, pi/2], Taylor series to x^9 in Horner form *)
SinQ(x) ==
    LET x2 == MulS(x, x)
        a4 == 10000 - x2 \div 72
        a3 == 10000 - MulS(x2, a4) \div 42
        a2 == 10000 - MulS(x2, a3) \div 20
        a1 == 10000 - MulS(x2, a2) \div 6
    IN  MulS(x, a1)

np_sin(theta) ==
    LET t == theta % (2 * pi)
        h == pi \div 2
    IN  IF t <= h THEN SinQ(t)
        ELSE IF t <= pi THEN SinQ(pi - t)
        ELSE IF t <= pi + h THEN 0 - SinQ(t - pi)
        ELSE 0 - SinQ(2 * pi - t)

np_cos(theta) ==
    LET t == theta % (2 * pi)
        h == pi \div 2
    IN  IF t <= h THEN SinQ(h - t)
        ELSE IF t <= pi THEN 0 - SinQ(t - h)
        ELSE IF t <= pi + h THEN 0 - SinQ(pi + h - t)
        ELSE SinQ(t - pi - h)

(* linspace with endpoint=False *)
linspace_open(start, stop, num) ==
    [i \in 1..num |-> start + ((i - 1) * (stop - start)) \div num]

(* numpy.linspace(start, stop, num), endpoint included *)
linspace(start, stop, num) ==
    [i \in 1..num |->
        IF i = 1 THEN start
        ELSE IF i = num THEN stop
        ELSE start + ((i - 1) * (stop - start)) \div (num - 1)]

---------------------------------------------------------------------------
(* class MagnetronSolver *)

MagnetronSolver(D, n, Ra, Rk, U1, U2) ==
    [D |-> D, n |-> n, Ra |-> Ra, Rk |-> Rk, U1 |-> U1, U2 |-> U2]

(* the orbit radius taken as the whole gap Ra - Rk *)
calculate_solenoid_current_gap(slf, u) ==
    LET r  == slf.Ra - slf.Rk
        B  == FloatDiv(np_sqrt((((2 * u) * m_e) \div e) * 1000), r, 10000)
        Ic == FloatDiv(B, (mu_0 * slf.n) \div 100, 1000)
    IN  Ic

(* U left out under the root *)
calculate_solenoid_current_noU(slf, u) ==
    LET r  == (slf.Ra - slf.Rk) \div 2
        B  == FloatDiv(np_sqrt(((2 * m_e * 10000) \div e) * 1000), r, 10000)
        Ic == FloatDiv(B, (mu_0 * slf.n) \div 100, 1000)
    IN  Ic

(* n left out of the denominator *)
calculate_solenoid_current_noN(slf, u) ==
    LET r  == (slf.Ra - slf.Rk) \div 2
        B  == FloatDiv(np_sqrt((((2 * u) * m_e) \div e) * 1000), r, 10000)
        Ic == FloatDiv(B, (mu_0 * 1000) \div 100, 1000)
    IN  Ic

calculate_solenoid_current(slf, u) ==
    LET r  == (slf.Ra - slf.Rk) \div 2
        B  == FloatDiv(np_sqrt((((2 * u) * m_e) \div e) * 1000), r, 10000)
        Ic == FloatDiv(B, (mu_0 * slf.n) \div 100, 1000)
    IN  Ic

(* the radius taken from the flux density B: r = sqrt(2*U*m_e/e) / B *)
electron_trajectory_cyclotron(slf, u, ic, num_points) ==
    LET B     == IF IsFinite(ic)
                 THEN Fin((((mu_0 * slf.n) \div 100) * ic.v) \div 1000) ELSE ic
        r     == FloatDiv(np_sqrt((((2 * u) * m_e) \div e) * 1000),
                          B.v, 10000).v
        theta == linspace(0, 2 * pi, num_points)
        x     == [i \in DOMAIN theta |-> MulS(slf.Rk + r, np_cos(theta[i]))]
        y     == [i \in DOMAIN theta |-> MulS(slf.Rk + r, np_sin(theta[i]))]
    IN  [x |-> x, y |-> y]

electron_trajectory(slf, u, ic, num_points) ==
    LET B     == IF IsFinite(ic)
                 THEN Fin((((mu_0 * slf.n) \div 100) * ic.v) \div 1000) ELSE ic
        r     == (slf.Ra - slf.Rk) \div 2
        theta == linspace(0, 2 * pi, num_points)
        x     == [i \in DOMAIN theta |-> MulS(slf.Rk + r, np_cos(theta[i]))]
        y     == [i \in DOMAIN theta |-> MulS(slf.Rk + r, np_sin(theta[i]))]
    IN  [x |-> x, y |-> y]

(* What a plotting call does besides returning None: the exception it     *)
(* raises ("" for none), the calls of calculate_solenoid_current it makes  *)
(* and the figure plt.show() displays (<<>> for none)                      *)
Figure(kind, xs, ys, u, ic) ==
    [kind |-> kind, xs |-> xs, ys |-> ys, U |-> u, Ic |-> ic]

plot_ic_vs_u(slf, num_points) ==
    LET U_values  == linspace(slf.U1, slf.U2, num_points)
        Ic_values == [i \in DOMAIN U_values |->
                         calculate_solenoid_current(slf, U_values[i])]
    IN  [exc   |-> IF Len(Ic_values) = 0 THEN "ValueError" ELSE "",
         calls |-> U_values,
         shown |-> IF Len(Ic_values) = 0 THEN <<>>
                   ELSE <<Figure("ic_vs_u", U_values, Ic_values, 0, NaN)>>]

(* the point count of the other plot passed on *)
plot_trajectory_100(slf, u, ic) ==
    LET xy == electron_trajectory(slf, u, ic, IcVsUDefaultPoints)
    IN  [exc |-> "", calls |-> <<>>,
         shown |-> <<Figure("trajectory", xy.x, xy.y, u, ic)>>]

plot_trajectory(slf, u, ic) ==
    LET xy == electron_trajectory(slf, u, ic, TrajectoryDefaultPoints)
    IN  [exc |-> "", calls |-> <<>>,
         shown |-> <<Figure("trajectory", xy.x, xy.y, u, ic)>>]

---------------------------------------------------------------------------
(* bounds of the inputs *)

NumR      == 3    \* anode radii 10 mm .. NumR * 10 mm
NumU      == 10   \* voltages 0 V .. NumU * 100 V
MaxPoints == 3    \* explicit num_points 0 .. MaxPoints

Radii      == {1000 * k : k \in 1..NumR}
Windings   == {<<1000, 1000, 10000>>, <<500, 2000, 6000>>}   \* n, U1, U2
Configs    == {MagnetronSolver(10000, w[1], Ra, Rk, w[2], w[3]) :
                  w \in Windings, Ra \in Radii, Rk \in {0, 1000}}
Voltages   == {0 - 1000} \cup {1000 * k : k \in 0..NumU}
TrajArgs   == {<<1000, Fin(2000)>>, <<5500, Fin(6291)>>}
PointArgs  == 0..MaxPoints

VARIABLES
    self,   \* the solver's six attributes
    ctor,   \* the arguments its constructor was called with
    name,   \* __name__: "__main__" when run as a script
    pc,     \* line of the script to run next ("" when imported)
    U, Ic,  \* the script's globals
    ret,    \* the last call made by importing code: what it returned, raised,
            \* evaluated and displayed
    out     \* the script's stdout lines and figures, in order

vars == <<self, ctor, name, pc, U, Ic, ret, out>>

Call(op, args, val, eff) ==
    [op |-> op, args |-> args, val |-> val,
     exc |-> eff.exc, calls |-> eff.calls, shown |-> eff.shown]
NoEffect == [exc |-> "", calls |-> <<>>, shown |-> <<>>]
NoCall   == Call("", <<>>, "None", NoEffect)

(* state after `solver = MagnetronSolver(...)`, in importing code or in    *)
(* the script (line 104).  The script's parameters "can be changed"        *)
(* (line 96): they are drawn from the configurations with Ra > Rk, the     *)
(* documented one among them.                                              *)
Init ==
    /\ \E c \in Configs :
          /\ c.Ra >= c.Rk
          /\ ctor = c
          /\ self = MagnetronSolver(c.D, c.n, c.Ra, c.Rk, c.U1, c.U2)
    /\ name \in {"__main__", "magnetron"}
    /\ name = "__main__" => self.Ra > self.Rk
    /\ pc = IF name = "__main__" THEN "107" ELSE ""
    /\ U = 0
    /\ Ic = NaN
    /\ ret = NoCall
    /\ out = <<>>

(* calls made by importing code *)

(* the method keeps its radius in the instance *)
Call_calculate_solenoid_current_stores ==
    /\ name # "__main__"
    /\ \E u \in Voltages :
          ret' = Call("calculate_solenoid_current", <<u>>,
                      calculate_solenoid_current(self, u), NoEffect)
    /\ self' = [self EXCEPT !.Ra = (self.Ra - self.Rk) \div 2]
    /\ UNCHANGED <<ctor, name, pc, U, Ic, out>>

Call_calculate_solenoid_current ==
    /\ name # "__main__"
    /\ \E u \in Voltages :
          ret' = Call("calculate_solenoid_current", <<u>>,
                      calculate_solenoid_current(self, u), NoEffect)
    /\ UNCHANGED <<self, ctor, name, pc, U, Ic, out>>

Call_electron_trajectory ==
    /\ name # "__main__"
    /\ \E a \in TrajArgs, np \in PointArgs :
          ret' = Call("electron_trajectory", <<a[1], a[2], np>>,
                      electron_trajectory(self, a[1], a[2], np), NoEffect)
    /\ UNCHANGED <<self, ctor, name, pc, U, Ic, out>>

(* num_points omitted *)
Call_electron_trajectory_default ==
    /\ name # "__main__"
    /\ \E a \in TrajArgs :
          ret' = Call("electron_trajectory", <<a[1], a[2]>>,
                      electron_trajectory(self, a[1], a[2], TrajectoryDefaultPoints),
                      NoEffect)
    /\ UNCHANGED <<self, ctor, name, pc, U, Ic, out>>

Call_plot_ic_vs_u ==
    /\ name # "__main__"
    /\ \E np \in PointArgs :
          ret' = Call("plot_ic_vs_u", <<np>>, "None", plot_ic_vs_u(self, np))
    /\ UNCHANGED <<self, ctor, name, pc, U, Ic, out>>

(* num_points omitted *)
Call_plot_ic_vs_u_default ==
    /\ name # "__main__"
    /\ ret' = Call("plot_ic_vs_u", <<>>, "None",
                   plot_ic_vs_u(self, IcVsUDefaultPoints))
    /\ UNCHANGED <<self, ctor, name, pc, U, Ic, out>>

Call_plot_trajectory ==
    /\ name # "__main__"
    /\ \E a \in TrajArgs :
          ret' = Call("plot_trajectory", <<a[1], a[2]>>, "None",
                      plot_trajectory(self, a[1], a[2]))
    /\ UNCHANGED <<self, ctor, name, pc, U, Ic, out>>

(* the script, one action per statement *)

Main107 ==
    /\ name = "__main__" /\ pc = "107"
    /\ U' = (ctor.U1 + ctor.U2) \div 2
    /\ pc' = "108"
    /\ UNCHANGED <<self, ctor, name, Ic, ret, out>>

Main108 ==
    /\ name = "__main__" /\ pc = "108"
    /\ Ic' = calculate_solenoid_current(self, U)
    /\ pc' = "109"
    /\ UNCHANGED <<self, ctor, name, U, ret, out>>

Main109 ==
    /\ name = "__main__" /\ pc = "109"
    /\ out' = Append(out, Figure("print", <<>>, <<>>, U, Ic))
    /\ pc' = "112"
    /\ UNCHANGED <<self, ctor, name, U, Ic, ret>>

(* the two plots in the other order *)
Main112_swapped ==
    /\ name = "__main__" /\ pc = "112"
    /\ out' = out \o plot_ic_vs_u(self, IcVsUDefaultPoints).shown
    /\ pc' = "115"
    /\ UNCHANGED <<self, ctor, name, U, Ic, ret>>

Main112 ==
    /\ name = "__main__" /\ pc = "112"
    /\ out' = out \o plot_trajectory(self, U, Ic).shown
    /\ pc' = "115"
    /\ UNCHANGED <<self, ctor, name, U, Ic, ret>>

Main115 ==
    /\ name = "__main__" /\ pc = "115"
    /\ out' = out \o plot_ic_vs_u(self, IcVsUDefaultPoints).shown
    /\ pc' = "done"
    /\ UNCHANGED <<self, ctor, name, U, Ic, ret>>

Next ==
    \/ Call_calculate_solenoid_current
    \/ Call_electron_trajectory
    \/ Call_electron_trajectory_default
    \/ Call_plot_ic_vs_u
    \/ Call_plot_ic_vs_u_default
    \/ Call_plot_trajectory
    \/ Main107
    \/ Main108
    \/ Main109
    \/ Main112
    \/ Main115

Spec == Init /\ [][Next]_vars

---------------------------------------------------------------------------
(* properties *)

Abs(a) == IF a < 0 THEN 0 - a ELSE a

(* a = b within 0.1 % and two units of rounding *)
Close(a, b) == Abs(a - b) * 1000 <= Abs(b) + 2000

(* (dx, dy) has length rad within two units of rounding *)
HasLength(dx, dy, rad) ==
    /\ dx * dx + dy * dy <= (rad + 2) * (rad + 2)
    /\ dx * dx + dy * dy >= (rad - 2) * (rad - 2)

(* the parameters written in the script, lines 97-102 *)
DocumentedConfig == MagnetronSolver(10000, 1000, 3000, 1000, 1000, 10000)

IsCall(op) == ret.op = op

(* the point count a call of electron_trajectory asked for *)
RequestedPoints ==
    IF Len(ret.args) = 3 THEN ret.args[3] ELSE TrajectoryDefaultPoints

(* the point count a call of plot_ic_vs_u asked for *)
RequestedVoltages ==
    IF Len(ret.args) = 1 THEN ret.args[1] ELSE IcVsUDefaultPoints

(* C1: with Ra > Rk, every point returned by electron_trajectory is at     *)
(* distance r = (Ra - Rk)/2 from the centre (Rk + r, 0), which lies at     *)
(* distance Rk + r from the origin.                                        *)
C1_PointsOnOrbitCircle ==
    (IsCall("electron_trajectory") /\ self.Ra > self.Rk) =>
        LET r  == (self.Ra - self.Rk) \div 2
            cx == self.Rk + r
        IN  \A i \in DOMAIN ret.val.x :
                HasLength(ret.val.x[i] - cx, ret.val.y[i], r)

(* C2, as claimed: for the documented configuration the script's midpoint  *)
(* voltage is 550 V and the current computed for it is about 0.0211 A.     *)
C2_MidpointCurrent_0_0211 ==
    (name = "__main__" /\ self = DocumentedConfig /\ pc \notin {"107", "108"}) =>
        /\ U = 5500
        /\ IsFinite(Ic)
        /\ Abs(Ic.v - 21) <= 1

(* C2, amended: for the documented configuration the script's midpoint     *)
(* voltage is 550 V and the current computed for it is about 6.293 A, the  *)
(* value of (sqrt(2*550*m_e/e)/0.01)/(mu_0*1000).                          *)
C2_MidpointCurrent_6_293 ==
    (name = "__main__" /\ self = DocumentedConfig /\ pc \notin {"107", "108"}) =>
        /\ U = 5500
        /\ IsFinite(Ic)
        /\ Abs(Ic.v - 6293) <= 6

C2_Witness ==
    name = "__main__" /\ self = DocumentedConfig /\ pc = "109" /\ IsFinite(Ic)

(* C3: with Ra > Rk and n > 0, the current returned for U > 0 is finite    *)
(* and strictly positive, and strictly larger than the current for every   *)
(* smaller positive voltage.                                               *)
C3_PositiveAndIncreasing ==
    (/\ IsCall("calculate_solenoid_current")
     /\ self.Ra > self.Rk /\ self.n > 0 /\ ret.args[1] > 0) =>
        /\ IsFinite(ret.val)
        /\ ret.val.v > 0
        /\ \A ua \in Voltages :
              (0 < ua /\ ua < ret.args[1]) =>
                  LET a == calculate_solenoid_current(self, ua)
                  IN  IsFinite(a) /\ 0 < a.v /\ a.v < ret.val.v

C3_Witness ==
    /\ IsCall("calculate_solenoid_current")
    /\ self.Ra > self.Rk /\ self.n > 0 /\ ret.args[1] = 1000 * NumU
    /\ ret.val.v > 0

(* C4: with Ra > Rk, n > 0 and U > 0: Ic(4U) = 2 Ic(U); doubling n halves  *)
(* Ic; doubling r = (Ra - Rk)/2 halves Ic (each within rounding); and Ic   *)
(* is the same whatever D, U1 and U2 are.                                  *)
C4_Proportionality ==
    (/\ IsCall("calculate_solenoid_current")
     /\ self.Ra > self.Rk /\ self.n > 0 /\ ret.args[1] > 0) =>
        LET u  == ret.args[1]
            n2 == [self EXCEPT !.n = 2 * self.n]
            r2 == [self EXCEPT !.Ra = self.Rk + 2 * (self.Ra - self.Rk)]
            o  == [self EXCEPT !.D = 2 * self.D, !.U1 = self.U2,
                                !.U2 = self.U1 + self.U2]
        IN  /\ IsFinite(ret.val)
            /\ Close(calculate_solenoid_current(self, 4 * u).v, 2 * ret.val.v)
            /\ Close(2 * calculate_solenoid_current(n2, u).v, ret.val.v)
            /\ Close(2 * calculate_solenoid_current(r2, u).v, ret.val.v)
            /\ calculate_solenoid_current(o, u) = ret.val

C4_Witness ==
    /\ IsCall("calculate_solenoid_current")
    /\ self.Ra > self.Rk /\ self.Rk > 0 /\ ret.args[1] = 1000
    /\ IsFinite(ret.val) /\ ret.val.v > 0

(* C5: when electron_trajectory returns two or more points, the first and  *)
(* the last are the same point (within one unit of rounding).              *)
C5_EndpointsCoincide ==
    (IsCall("electron_trajectory") /\ Len(ret.val.x) >= 2) =>
        LET n == Len(ret.val.x)
        IN  /\ Abs(ret.val.x[1] - ret.val.x[n]) <= 1
            /\ Abs(ret.val.y[1] - ret.val.y[n]) <= 1

C5_Witness ==
    /\ IsCall("electron_trajectory")
    /\ Len(ret.val.x) = TrajectoryDefaultPoints
    /\ ret.val.x[2] # ret.val.x[1] \/ ret.val.y[2] # ret.val.y[1]

(* the figures a run of the script shows have the default point counts *)
ScriptFigureCounts ==
    \A i \in DOMAIN out :
        /\ out[i].kind = "trajectory" => Len(out[i].xs) = TrajectoryDefaultPoints
        /\ out[i].kind = "ic_vs_u" => Len(out[i].xs) = IcVsUDefaultPoints

TrajectoryCounts ==
    /\ IsCall("electron_trajectory") =>
          /\ Len(ret.val.x) = RequestedPoints
          /\ Len(ret.val.y) = RequestedPoints
    /\ IsCall("plot_trajectory") =>
          /\ Len(ret.shown) = 1
          /\ Len(ret.shown[1].xs) = TrajectoryDefaultPoints
          /\ Len(ret.shown[1].ys) = TrajectoryDefaultPoints

(* C6, as claimed: electron_trajectory returns exactly num_points pairs    *)
(* (1000 when omitted, as in plot_trajectory), and plot_ic_vs_u evaluates  *)
(* the current on exactly num_points voltages (100 when omitted), the      *)
(* first being U1 and the last U2.                                         *)
C6_CountsFirstU1LastU2 ==
    /\ TrajectoryCounts
    /\ ScriptFigureCounts
    /\ IsCall("plot_ic_vs_u") =>
          /\ Len(ret.calls) = RequestedVoltages
          /\ Len(ret.calls) >= 1 =>
                /\ ret.calls[1] = self.U1
                /\ ret.calls[Len(ret.calls)] = self.U2

(* C6, amended: the counts as claimed; the first voltage is U1 whenever    *)
(* there is one, and the last is U2 whenever num_points >= 2: for          *)
(* num_points = 1 the only voltage is U1.                                  *)
C6_CountsFirstU1LastU2From2 ==
    /\ TrajectoryCounts
    /\ ScriptFigureCounts
    /\ IsCall("plot_ic_vs_u") =>
          /\ Len(ret.calls) = RequestedVoltages
          /\ Len(ret.calls) >= 1 => ret.calls[1] = self.U1
          /\ Len(ret.calls) >= 2 => ret.calls[Len(ret.calls)] = self.U2
          /\ Len(ret.calls) = 1 => ret.calls = <<self.U1>>

C6_Witness ==
    /\ IsCall("plot_ic_vs_u")
    /\ ret.args = <<1>>
    /\ ret.calls = <<self.U1>>
    /\ self.U1 # self.U2

(* C7: in every state, whatever calls were made, the six attributes hold   *)
(* the values the constructor was given.                                   *)
C7_ConfigurationImmutable ==
    /\ self = ctor
    /\ DOMAIN self = {"D", "n", "Ra", "Rk", "U1", "U2"}

C7_Witness ==
    /\ IsCall("plot_trajectory")
    /\ Len(ret.shown) = 1
    /\ self = ctor
    /\ self.Ra > self.Rk

(* C8: the script's output is, in this order and each once, the line with  *)
(* the midpoint voltage and its current, the trajectory figure for that    *)
(* voltage and current, and the current-vs-voltage figure; each statement  *)
(* adds exactly its own output.                                            *)
C8_ScriptOutputOrder ==
    name = "__main__" =>
        LET order == <<"print", "trajectory", "ic_vs_u">>
            done  == CASE pc \in {"107", "108", "109"} -> 0
                       [] pc = "112" -> 1
                       [] pc = "115" -> 2
                       [] OTHER -> 3
        IN  /\ Len(out) = done
            /\ \A i \in DOMAIN out : out[i].kind = order[i]
            /\ Len(out) >= 1 =>
                  /\ out[1].U = (ctor.U1 + ctor.U2) \div 2
                  /\ out[1].Ic = calculate_solenoid_current(self, out[1].U)
            /\ Len(out) >= 2 =>
                  /\ out[2].U = out[1].U
                  /\ out[2].Ic = out[1].Ic

C8_Witness ==
    /\ name = "__main__" /\ pc = "done"
    /\ Len(out) = 3
    /\ out[3].kind = "ic_vs_u"

(* C9: with Ra = Rk the call of calculate_solenoid_current raises nothing  *)
(* and returns a non-finite value (inf, or nan for U <= 0), never a finite *)
(* current, and the configuration is as constructed.                       *)
C9_DegenerateRadiusPropagates ==
    (IsCall("calculate_solenoid_current") /\ self.Ra = self.Rk) =>
        /\ ~IsFinite(ret.val)
        /\ ret.val = (IF ret.args[1] > 0 THEN Inf ELSE NaN)
        /\ ret.exc = ""
        /\ self = ctor

C9_Witness ==
    /\ IsCall("calculate_solenoid_current")
    /\ self.Ra = self.Rk
    /\ ret.args[1] = 1000
    /\ ret.val.k = "inf"

(* C10: the points electron_trajectory returned are those it returns for   *)
(* any other U and Ic, and for any other D, n, U1 and U2: they depend on   *)
(* Ra, Rk and num_points alone.                                            *)
C10_IndependentOfUAndIc ==
    IsCall("electron_trajectory") =>
        /\ \A a \in TrajArgs :
              electron_trajectory(self, a[1], a[2], RequestedPoints) = ret.val
        /\ \A c \in Configs :
              (c.Ra = self.Ra /\ c.Rk = self.Rk) =>
                  electron_trajectory(c, ret.args[1], ret.args[2], RequestedPoints)
                      = ret.val

C10_Witness ==
    /\ IsCall("electron_trajectory")
    /\ ret.args[1] = 5500
    /\ Len(ret.val.x) >= 3
    /\ \E a \in TrajArgs : a[1] # ret.args[1] /\ a[2] # ret.args[2]

===========================================================================
